---------------------------- MODULE Spec2Model ----------------------------
(***************************************************************************)
(* Model of the two scripts of rifas-backend:                              *)
(*   src/encode_key.py          the credential encoder                     *)
(*   src/migrate_to_firestore.py the fixture migrator                      *)
(* One behaviour is one operator session: the operator runs one of the two *)
(* scripts (variable script), possibly several times over the same files.  *)
(* The document database and the Firebase SDK are the environment: every   *)
(* call into them either returns or raises, chosen nondeterministically,   *)
(* with at most MaxFailures raised calls in one behaviour.                 *)
(***************************************************************************)
EXTENDS Integers, Sequences, FiniteSets, TLC

(***************************************************************************)
(* Bounds of the model.                                                    *)
(***************************************************************************)
\* at most this many environment failures (rejected writes, SDK errors)
MaxFailures == 1
\* the operator runs the script at most this many times
MaxRuns == 2
\* longest list of the unbatched fixtures (ganadores, resultados, comprobantes)
MaxList == 2
\* largest number of batches a batched fixture (numeros, ventas) is cut into
MaxBatches == 2
\* longest credential file given to the encoder, in bytes
MaxKeyLen == 2

(***************************************************************************)
(* Program constants.                                                      *)
(***************************************************************************)
\* batch_size = 500 (numeros and ventas)
batch_size == 500

\* The fixture files in the order migrate_data handles them.
CONFIGURACION_FILE == "configuracion.json"
NUMEROS_FILE == "numeros.json"
HORARIOS_ZULIA_FILE == "horarios_zulia.json"
GANADORES_FILE == "ganadores.json"
PREMIOS_FILE == "premios.json"
VENTAS_FILE == "ventas.json"
RESULTADOS_ZULIA_FILE == "resultados_zulia.json"
COMPROBANTES_FILE == "comprobantes.json"

FixtureFiles ==
    << CONFIGURACION_FILE, NUMEROS_FILE, HORARIOS_ZULIA_FILE, GANADORES_FILE,
       PREMIOS_FILE, VENTAS_FILE, RESULTADOS_ZULIA_FILE, COMPROBANTES_FILE >>

NFixtures == Len(FixtureFiles)

\* The collection each fixture is written to.
Collection(f) ==
    CASE f = CONFIGURACION_FILE -> "configuracion"
      [] f = NUMEROS_FILE -> "numeros"
      [] f = HORARIOS_ZULIA_FILE -> "horarios_zulia"
      [] f = GANADORES_FILE -> "ganadores"
      [] f = PREMIOS_FILE -> "premios"
      [] f = VENTAS_FILE -> "ventas"
      [] f = RESULTADOS_ZULIA_FILE -> "resultados_zulia"
      [] f = COMPROBANTES_FILE -> "comprobantes"

\* The write strategy of each fixture: one document set, 500-record batches,
\* or one add per record.
Strategy(f) ==
    CASE f \in {CONFIGURACION_FILE, HORARIOS_ZULIA_FILE, PREMIOS_FILE} -> "set"
      [] f \in {NUMEROS_FILE, VENTAS_FILE} -> "batch"
      [] f \in {GANADORES_FILE, RESULTADOS_ZULIA_FILE, COMPROBANTES_FILE} -> "add"

\* The fixed document identity of the single-document fixtures.
DocumentId(f) ==
    CASE f = CONFIGURACION_FILE -> "general"
      [] f = HORARIOS_ZULIA_FILE -> "horarios_principales"
      [] f = PREMIOS_FILE -> "general"

SetCollections == {"configuracion", "horarios_zulia", "premios"}
AutoIdCollections == {"ganadores", "ventas", "resultados_zulia", "comprobantes"}

(***************************************************************************)
(* JSON values.  A parsed value is a tagged sequence: a list of records or *)
(* a dict given by its items; None is what load_json returns on failure.   *)
(***************************************************************************)
None == [type |-> "none", items |-> << >>]
List(items) == [type |-> "list", items |-> items]
Dict(items) == [type |-> "dict", items |-> items]

\* len(x) of a parsed list or dict.
PyLen(x) == Len(x.items)

\* Python truthiness of what load_json returned: None, [] and {} are falsy.
Truthy(x) == x.type # "none" /\ PyLen(x) > 0

(***************************************************************************)
(* Files.  A file is absent, present but unreadable, or holds a text: no   *)
(* content at all, text that is no JSON, or the serialisation of a value.  *)
(***************************************************************************)
Absent == [kind |-> "absent", value |-> None]
Unreadable == [kind |-> "unreadable", value |-> None]
NoContent == [kind |-> "nocontent", value |-> None]
Malformed == [kind |-> "malformed", value |-> None]
Json(x) == [kind |-> "json", value |-> x]


(***************************************************************************)
(* Records of the list fixtures.  A numeros record has the key field       *)
(* 'numero' and a payload; a malformed one lacks the key field.  The other *)
(* list fixtures hold plain records.                                       *)
(***************************************************************************)
Rec(v) == [v |-> v]
NumeroRec(k, v) == [numero |-> k, v |-> v]
HasNumero(r) == "numero" \in DOMAIN r

\* The lengths of the batched lists: one record, two, and a full last batch
\* and a one-record last batch for every number of batches up to MaxBatches.
BatchedLens ==
    {1, 2} \cup { g * batch_size : g \in 1..(MaxBatches - 1) }
           \cup { g * batch_size + 1 : g \in 1..(MaxBatches - 1) }

\* numeros lists: all keys distinct; record q repeating the key of record p;
\* record b lacking the key field.
PlainNumeros(n) == [j \in 1..n |-> NumeroRec(j, j)]
DupNumeros(n, p, q) == [j \in 1..n |-> NumeroRec(IF j = q THEN p ELSE j, j)]
BadNumeros(n, b) == [j \in 1..n |-> IF j = b THEN Rec(j) ELSE NumeroRec(j, j)]

NumerosLists ==
    { PlainNumeros(n) : n \in BatchedLens }
    \cup { DupNumeros(n, 1, q) : n \in BatchedLens \ {1}, q \in {2} }
    \cup { DupNumeros(n, 1, n) : n \in BatchedLens \ {1, 2} }
    \cup { BadNumeros(n, 1) : n \in BatchedLens }
    \cup { BadNumeros(n, n) : n \in BatchedLens \ {1} }

\* ventas lists: distinct records, and one list holding the same record twice.
PlainVentas(n) == [j \in 1..n |-> Rec(j)]
VentasLists == { PlainVentas(n) : n \in BatchedLens } \cup { << Rec(1), Rec(1) >> }

\* The lists of the unbatched fixtures: every list of 1..MaxList records.
RecVals == { Rec(1), Rec(2) }
SmallLists == UNION { [1..n -> RecVals] : n \in 1..MaxList }

\* What a fixture file can hold besides data.
NonData == { Absent, Unreadable, NoContent, Malformed,
             Json(List(<< >>)), Json(Dict(<< >>)) }

\* The content a fixture file has when nothing is wrong with it.
Baseline(f) ==
    CASE Strategy(f) = "set" /\ f = HORARIOS_ZULIA_FILE -> Json(List(<< Rec(1), Rec(2) >>))
      [] Strategy(f) = "set" /\ f # HORARIOS_ZULIA_FILE -> Json(Dict(<< Rec(1) >>))
      [] f = NUMEROS_FILE -> Json(List(PlainNumeros(1)))
      [] f = VENTAS_FILE -> Json(List(PlainVentas(1)))
      [] Strategy(f) = "add" -> Json(List(<< Rec(1) >>))

\* Every content the model gives a fixture file.
Contents(f) ==
    NonData \cup {Baseline(f)} \cup
    CASE f = NUMEROS_FILE -> { Json(List(l)) : l \in NumerosLists }
      [] f = VENTAS_FILE -> { Json(List(l)) : l \in VentasLists }
      [] Strategy(f) = "add" -> { Json(List(l)) : l \in SmallLists }
      [] OTHER -> {}

FileNames == { FixtureFiles[k] : k \in 1..NFixtures }
BaselineFiles == [f \in FileNames |-> Baseline(f)]

\* The directories the migrator is run in: the baseline with one file
\* changed, and every file in the same non-data state.
Directories ==
    UNION { { [BaselineFiles EXCEPT ![f] = c] : c \in Contents(f) } : f \in FileNames }
    \cup { [f \in FileNames |-> c] : c \in NonData }

(***************************************************************************)
(* Credentials.  FIREBASE_SERVICE_ACCOUNT_KEY is unset, empty, the text of *)
(* a service-account key, or some other text.  The key file is absent,     *)
(* unreadable, or holds bytes that are or are not a service-account key.   *)
(***************************************************************************)
EnvValues == {"unset", "empty", "valid", "invalid"}

SERVICE_ACCOUNT_FILE == "tu-oportunidad-es-hoy-firebase-adminsdk-fbsvc-781e9f9dc1.json"

NoKeyFile == [kind |-> "absent", bytes |-> << >>, valid |-> FALSE]
LockedKeyFile == [kind |-> "unreadable", bytes |-> << >>, valid |-> FALSE]
KeyFile(bytes, valid) == [kind |-> "file", bytes |-> bytes, valid |-> valid]

ByteVals == {0, 77, 255}
ByteStrings == UNION { [1..n -> ByteVals] : n \in 0..MaxKeyLen }

\* Key files of the migrator's runs and of the encoder's runs.
MigratorKeyFiles == { NoKeyFile, LockedKeyFile, KeyFile(<< 77 >>, TRUE), KeyFile(<< 77 >>, FALSE) }
EncoderKeyFiles == { NoKeyFile, LockedKeyFile } \cup { KeyFile(b, FALSE) : b \in ByteStrings }


(***************************************************************************)
(* Console lines.  A line is its fixed text and what is formatted into it: *)
(* a file name, a number, a record, an encoded text.                       *)
(***************************************************************************)
NoRec == Rec(0)
Line(msg) == [msg |-> msg, file |-> "", n |-> 0, rec |-> NoRec, text |-> << >>]
LineFile(msg, f) == [Line(msg) EXCEPT !.file = f]
LineN(msg, n) == [Line(msg) EXCEPT !.n = n]
LineRec(msg, r) == [Line(msg) EXCEPT !.rec = r]
LineText(msg, t) == [Line(msg) EXCEPT !.text = t]

Min(a, b) == IF a <= b THEN a ELSE b

(***************************************************************************)
(* The state.                                                              *)
(***************************************************************************)
VARIABLES
    script,      \* which script the operator runs: "encoder" or "migrator"
    env,         \* os.environ['FIREBASE_SERVICE_ACCOUNT_KEY']
    keyFile,     \* the service-account key file in the working directory
    files,       \* the fixture files in the working directory
    db,          \* the destination: collection -> its documents
    run,         \* number of the current execution of the script
    pc,          \* where the current execution is
    fx,          \* migrate_data: index of the fixture being handled
    i,           \* migrate_data: the loop offset in the fixture's list
    data,        \* migrate_data: what load_json returned for the fixture
    out,         \* the console output of the current execution
    log,         \* the writes the current execution attempted, in order
    credSource,  \* where the current execution took its credential from
    faults,      \* environment failures so far
    ends,        \* how the earlier executions ended
    dbPrev       \* the destination when the current execution started

vars == << script, env, keyFile, files, db, run, pc, fx, i, data, out, log,
           credSource, faults, ends, dbPrev >>

\* The empty destination.  Fixed-identity collections and numeros map a
\* document identity to its content; a collection whose identities the
\* destination assigns is the sequence of its documents in creation order.
EmptyDb ==
    [c \in SetCollections \cup {"numeros"} \cup AutoIdCollections |-> << >>]

Init ==
    /\ script \in {"encoder", "migrator"}
    /\ \/ /\ script = "encoder"
          /\ env = "unset"
          /\ keyFile \in EncoderKeyFiles
          /\ files = BaselineFiles
       \/ /\ script = "migrator"
          /\ env \in EnvValues
          /\ keyFile \in MigratorKeyFiles
          /\ files = BaselineFiles
       \/ /\ script = "migrator"
          /\ env = "valid"
          /\ keyFile = KeyFile(<< 77 >>, TRUE)
          /\ files \in Directories
    /\ db = EmptyDb
    /\ dbPrev = EmptyDb
    /\ run = 1
    /\ pc = "init"
    /\ fx = 0
    /\ i = 0
    /\ data = None
    /\ out = << >>
    /\ log = << >>
    /\ credSource = "none"
    /\ faults = 0
    /\ ends = << >>

\* The environment may make one more call fail.
MayFail == faults < MaxFailures


(***************************************************************************)
(* encode_key.py                                                           *)
(***************************************************************************)
B64Alphabet ==
    << "A", "B", "C", "D", "E", "F", "G", "H", "I", "J", "K", "L", "M",
       "N", "O", "P", "Q", "R", "S", "T", "U", "V", "W", "X", "Y", "Z",
       "a", "b", "c", "d", "e", "f", "g", "h", "i", "j", "k", "l", "m",
       "n", "o", "p", "q", "r", "s", "t", "u", "v", "w", "x", "y", "z",
       "0", "1", "2", "3", "4", "5", "6", "7", "8", "9", "+", "/" >>

B64Char(sextet) == B64Alphabet[sextet + 1]

\* base64.b64encode(b).decode("utf-8"): three bytes give four characters, a
\* last group of one or two bytes is padded with "=".
RECURSIVE b64encode(_)
b64encode(b) ==
    CASE Len(b) = 0 -> << >>
      [] Len(b) = 1 ->
            << B64Char(b[1] \div 4), B64Char((b[1] % 4) * 16), "=", "=" >>
      [] Len(b) = 2 ->
            << B64Char(b[1] \div 4), B64Char((b[1] % 4) * 16 + b[2] \div 16),
               B64Char((b[2] % 16) * 4), "=" >>
      [] OTHER ->
            << B64Char(b[1] \div 4), B64Char((b[1] % 4) * 16 + b[2] \div 16),
               B64Char((b[2] % 16) * 4 + b[3] \div 64), B64Char(b[3] % 64) >>
            \o b64encode(SubSeq(b, 4, Len(b)))

\* What the encoder prints for a missing key file (a faulty variant: the
\* markers are printed around an empty text as well).
EncoderMissingFramed(f) ==
    << LineFile("Error: Archivo '{}' no encontrado en el directorio actual.", f),
       Line("--- COMIENZO DE CLAVE BASE64 ---"),
       Line("--- FIN DE CLAVE BASE64 ---") >>

\* What the encoder prints when os.path.exists(SERVICE_ACCOUNT_FILE) is false.
EncoderMissing(f) ==
    << LineFile("Error: Archivo '{}' no encontrado en el directorio actual.", f) >>

\* The lines the script prints for key file kf.
EncoderOutput(kf) ==
    CASE kf.kind = "absent" -> EncoderMissing(SERVICE_ACCOUNT_FILE)
      [] kf.kind = "unreadable" -> << Line("Error al codificar el archivo: {}") >>
      [] kf.kind = "file" ->
            << Line("--- COMIENZO DE CLAVE BASE64 ---"),
               LineText("{}", b64encode(kf.bytes)),
               Line("--- FIN DE CLAVE BASE64 ---"),
               Line(""),
               Line("Copia el texto entre '--- COMIENZO ---' y '--- FIN ---' y pegalo en Render.") >>

\* One execution of encode_key.py.
EncodeKey ==
    /\ script = "encoder"
    /\ pc = "init"
    /\ out' = out \o EncoderOutput(keyFile)
    /\ pc' = "done"
    /\ UNCHANGED << script, env, keyFile, files, db, run, fx, i, data, log,
                    credSource, faults, ends, dbPrev >>

(***************************************************************************)
(* migrate_to_firestore.py: module-level initialisation                    *)
(***************************************************************************)
\* A faulty variant: the key file is used whenever the variable holds no
\* valid credential.
CredentialSourceLenient(cred_json) == IF cred_json = "valid" THEN "env" ELSE "file"

\* `if cred_json:` -- the variable is used when it is set and not empty.
CredentialSource(cred_json) ==
    IF cred_json \in {"unset", "empty"} THEN "file" ELSE "env"

\* Whether credentials.Certificate(...) returns for that source.
CertificateOk(source) ==
    IF source = "env" THEN env = "valid"
    ELSE keyFile.kind = "file" /\ keyFile.valid

InitFailureLines ==
    << Line("Error al inicializar Firebase Admin SDK: {}"),
       Line("Asegurate de que el archivo de credenciales de Firebase este en el directorio correcto"),
       Line("o que la variable de entorno 'FIREBASE_SERVICE_ACCOUNT_KEY' este configurada.") >>

\* Lines 15-32: resolve the credential, initialise the app and the client;
\* on any exception print the error and exit().
InitFirebase ==
    /\ script = "migrator"
    /\ pc = "init"
    /\ LET source == CredentialSource(env)
       IN \/ /\ CertificateOk(source)
             /\ credSource' = source
             /\ out' = Append(out, Line("Firebase Admin SDK inicializado exitosamente."))
             /\ pc' = "main"
             /\ UNCHANGED faults
          \/ /\ CertificateOk(source)
             /\ MayFail
             /\ faults' = faults + 1
             /\ out' = out \o InitFailureLines
             /\ pc' = "aborted"
             /\ UNCHANGED credSource
          \/ /\ ~CertificateOk(source)
             /\ out' = out \o InitFailureLines
             /\ pc' = "aborted"
             /\ UNCHANGED << credSource, faults >>
    /\ UNCHANGED << script, env, keyFile, files, db, run, fx, i, data, log,
                    ends, dbPrev >>


(***************************************************************************)
(* migrate_to_firestore.py: load_json and migrate_data                     *)
(***************************************************************************)
\* load_json(filepath): the parsed content, or None and one console line.
load_json(filepath) ==
    LET file == files[filepath]
    IN CASE file.kind = "absent" ->
              [value |-> None,
               lines |-> << LineFile("Advertencia: Archivo '{}' no encontrado. Se omitira la migracion para este archivo.", filepath) >>]
         [] file.kind \in {"nocontent", "malformed"} ->
              [value |-> None,
               lines |-> << LineFile("Error al decodificar JSON en '{}': {}", filepath) >>]
         [] file.kind = "unreadable" ->
              [value |-> None,
               lines |-> << LineFile("Error al cargar '{}': {}", filepath) >>]
         [] file.kind = "json" ->
              [value |-> file.value, lines |-> << >>]

\* A faulty variant of the guard: only None is skipped.
GuardNotNone(x) == x.type # "none"

\* `if configuracion_data:` and the like -- the guard of every section.
Guard(x) == Truthy(x)

\* The document a single-document fixture is written as.
Payload(f, x) ==
    IF f = HORARIOS_ZULIA_FILE THEN Dict(<< [horarios |-> x] >>) ELSE x

SetSuccessLine(f, x) ==
    CASE f = CONFIGURACION_FILE ->
            Line("Configuracion migrada exitosamente a 'configuracion/general'.")
      [] f = HORARIOS_ZULIA_FILE ->
            LineN("Migrados {} horarios de Zulia a 'horarios_zulia/horarios_principales'.", PyLen(x))
      [] f = PREMIOS_FILE ->
            Line("Premios migrados exitosamente a 'premios/general'.")

SetFailureLine(f) ==
    CASE f = CONFIGURACION_FILE -> Line("Error al migrar configuracion: {}")
      [] f = HORARIOS_ZULIA_FILE -> Line("Error al migrar horarios de Zulia: {}")
      [] f = PREMIOS_FILE -> Line("Error al migrar premios: {}")

CommitSuccessLine(f, total) ==
    IF f = NUMEROS_FILE
    THEN LineN("Batch de numeros comprometido, total: {}", total)
    ELSE LineN("Batch de ventas comprometido, total: {}", total)

CommitFailureLine(f) ==
    IF f = NUMEROS_FILE
    THEN Line("Error al comprometer batch de numeros: {}")
    ELSE Line("Error al comprometer batch de ventas: {}")

AddFailureLine(f, r) ==
    CASE f = GANADORES_FILE -> LineRec("Error al migrar ganador: {} - {}", r)
      [] f = RESULTADOS_ZULIA_FILE -> LineRec("Error al migrar resultado de Zulia: {} - {}", r)
      [] f = COMPROBANTES_FILE -> LineRec("Error al migrar comprobante: {} - {}", r)

SummaryLine(f, n) ==
    CASE f = NUMEROS_FILE -> LineN("Migrados {} numeros a la coleccion 'numeros'.", n)
      [] f = GANADORES_FILE -> LineN("Migrados {} ganadores a la coleccion 'ganadores'.", n)
      [] f = VENTAS_FILE -> LineN("Migradas {} ventas a la coleccion 'ventas'.", n)
      [] f = RESULTADOS_ZULIA_FILE ->
            LineN("Migrados {} resultados de Zulia a la coleccion 'resultados_zulia'.", n)
      [] f = COMPROBANTES_FILE ->
            LineN("Migrados {} comprobantes a la coleccion 'comprobantes'.", n)

CompletionLines ==
    << Line("Migracion de datos a Firestore completada. Por favor, verifica en la consola de Firebase."),
       Line("Recuerda: Una vez que los datos esten en Firestore, tu backend en Render utilizara Firestore y no tus archivos JSON locales."),
       Line("Asegurate de configurar la variable de entorno FIREBASE_SERVICE_ACCOUNT_KEY en Render para que tu backend pueda conectarse a Firestore.") >>

\* One attempted write: the fixture, the call, the records handed over and
\* whether the destination accepted it.
Write(k, op, recs, ok) == [fx |-> k, op |-> op, recs |-> recs, ok |-> ok]

\* The section of fixture fx is over: on to the next one, or to the end.
Advance ==
    IF fx < NFixtures
    THEN pc' = "load" /\ fx' = fx + 1
    ELSE pc' = "complete" /\ fx' = NFixtures + 1

\* Line 74 (and 187-189): migrate_data starts.
StartMigration ==
    /\ pc = "main"
    /\ out' = Append(out, Line("Iniciando migracion de datos a Firestore..."))
    /\ pc' = "load"
    /\ fx' = 1
    /\ UNCHANGED << script, env, keyFile, files, db, run, i, data, log,
                    credSource, faults, ends, dbPrev >>

\* x_data = load_json(X_FILE) and the guard `if x_data:` of each section.
LoadFixture ==
    /\ pc = "load"
    /\ LET f == FixtureFiles[fx]
           loaded == load_json(f)
       IN /\ data' = loaded.value
          /\ out' = out \o loaded.lines
          /\ i' = 0
          /\ IF Guard(loaded.value)
             THEN pc' = Strategy(f) /\ fx' = fx
             ELSE Advance
    /\ UNCHANGED << script, env, keyFile, files, db, run, log, credSource,
                    faults, ends, dbPrev >>

\* doc_ref.set(...): the document is created or overwritten as a whole.
SetDoc(docs, id, x) == (id :> x) @@ docs

\* Lines 79-84, 113-118, 133-138: one document set inside try/except.
SetDocument ==
    /\ pc = "set"
    /\ LET f == FixtureFiles[fx]
           c == Collection(f)
           doc == Payload(f, data)
       IN \/ /\ db' = [db EXCEPT ![c] = SetDoc(@, DocumentId(f), doc)]
             /\ out' = Append(out, SetSuccessLine(f, data))
             /\ log' = Append(log, Write(fx, "set", << doc >>, TRUE))
             /\ UNCHANGED faults
          \/ /\ MayFail
             /\ faults' = faults + 1
             /\ out' = Append(out, SetFailureLine(f))
             /\ log' = Append(log, Write(fx, "set", << doc >>, FALSE))
             /\ UNCHANGED db
    /\ Advance
    /\ UNCHANGED << script, env, keyFile, files, run, i, data, credSource,
                    ends, dbPrev >>


\* The writes of one numeros batch, as the documents they leave: batch.set
\* is applied in the order of the segment, so of two records with the same
\* 'numero' the later one is the document.
RECURSIVE BatchWrites(_, _, _)
BatchWrites(segment, lo, hi) ==
    IF lo = hi
    THEN segment[lo].numero :> segment[lo]
    ELSE LET mid == (lo + hi) \div 2
         IN BatchWrites(segment, mid + 1, hi) @@ BatchWrites(segment, lo, mid)

\* A faulty variant: a document that exists is not overwritten.
CommitNumerosKeepFirst(docs, segment) ==
    docs @@ BatchWrites(segment, 1, Len(segment))

\* batch.commit() of a numeros batch: every write is applied, each creating
\* or overwriting the document its 'numero' names.
CommitNumeros(docs, segment) ==
    BatchWrites(segment, 1, Len(segment)) @@ docs

\* batch.commit() of a ventas batch: one new document per record.
CommitVentas(docs, segment) == docs \o segment

\* A faulty variant: a record already in the collection is not added again.
AddDocOnce(docs, r) ==
    IF \E k \in 1..Len(docs) : docs[k] = r THEN docs ELSE Append(docs, r)

\* collection.add(record): a new document with an identity of its own.
AddDoc(docs, r) == Append(docs, r)

\* The segment numeros_data[i:i + batch_size] (0-based i, as in the code).
Segment(items, offset) ==
    SubSeq(items, offset + 1, Min(offset + batch_size, Len(items)))

\* Lines 90-100 and 144-157: one iteration of the batching loop.  Only
\* batch.commit() is inside the try.  What builds the batch is not: the
\* subscript numero_item['numero'] raises KeyError on a record without that
\* field, and db.batch(), db.collection(..).document(..) and batch.set(..)
\* are calls into the SDK that may raise.  Nothing catches either:
\* migrate_data ends with the exception, before the commit of this batch.
BatchIteration ==
    /\ pc = "batch"
    /\ LET f == FixtureFiles[fx]
           c == Collection(f)
           n == PyLen(data)
           segment == Segment(data.items, i)
           keyError == f = NUMEROS_FILE /\ \E j \in 1..Len(segment) : ~HasNumero(segment[j])
       IN \/ /\ keyError
             /\ pc' = "crashed"
             /\ UNCHANGED << db, out, log, faults, i >>
          \/ /\ MayFail
             /\ faults' = faults + 1
             /\ pc' = "crashed"
             /\ UNCHANGED << db, out, log, i >>
          \/ /\ ~keyError
             /\ db' = [db EXCEPT ![c] = IF f = NUMEROS_FILE
                                        THEN CommitNumeros(@, segment)
                                        ELSE CommitVentas(@, segment)]
             /\ out' = Append(out, CommitSuccessLine(f, Min(i + batch_size, n)))
             /\ log' = Append(log, Write(fx, "commit", segment, TRUE))
             /\ i' = i + batch_size
             /\ pc' = IF i + batch_size < n THEN "batch" ELSE "summary"
             /\ UNCHANGED faults
          \/ /\ ~keyError
             /\ MayFail
             /\ faults' = faults + 1
             /\ out' = Append(out, CommitFailureLine(f))
             /\ log' = Append(log, Write(fx, "commit", segment, FALSE))
             /\ i' = i + batch_size
             /\ pc' = IF i + batch_size < n THEN "batch" ELSE "summary"
             /\ UNCHANGED db
    /\ UNCHANGED << script, env, keyFile, files, run, fx, data, credSource,
                    ends, dbPrev >>

\* A faulty variant: a failed add ends the loop.
AfterAddStopOnError(ok, k, n) == IF ok /\ k < n THEN "add" ELSE "summary"

\* Where the loop `for ganador in ganadores_data` goes after the add of
\* record k of n returned (ok) or raised and was caught (not ok).
AfterAdd(ok, k, n) == IF k < n THEN "add" ELSE "summary"

\* Lines 123-127, 163-167, 173-178: one iteration of an unbatched loop.
AddRecord ==
    /\ pc = "add"
    /\ LET f == FixtureFiles[fx]
           c == Collection(f)
           n == PyLen(data)
           r == data.items[i + 1]
       IN \/ /\ db' = [db EXCEPT ![c] = AddDoc(@, r)]
             /\ log' = Append(log, Write(fx, "add", << r >>, TRUE))
             /\ pc' = AfterAdd(TRUE, i + 1, n)
             /\ UNCHANGED << out, faults >>
          \/ /\ MayFail
             /\ faults' = faults + 1
             /\ out' = Append(out, AddFailureLine(f, r))
             /\ log' = Append(log, Write(fx, "add", << r >>, FALSE))
             /\ pc' = AfterAdd(FALSE, i + 1, n)
             /\ UNCHANGED db
    /\ i' = i + 1
    /\ UNCHANGED << script, env, keyFile, files, run, fx, data, credSource,
                    ends, dbPrev >>

\* Lines 105, 128, 158, 168, 179: the closing line of a list fixture.
PrintSummary ==
    /\ pc = "summary"
    /\ out' = Append(out, SummaryLine(FixtureFiles[fx], PyLen(data)))
    /\ Advance
    /\ UNCHANGED << script, env, keyFile, files, db, run, i, data, log,
                    credSource, faults, ends, dbPrev >>

\* Lines 182-184: the completion message; migrate_data returns.
Complete ==
    /\ pc = "complete"
    /\ out' = out \o CompletionLines
    /\ pc' = "done"
    /\ UNCHANGED << script, env, keyFile, files, db, run, fx, i, data, log,
                    credSource, faults, ends, dbPrev >>

\* How an execution can have ended: normally, by exit() at initialisation,
\* or by an exception nothing caught.
Ended == pc \in {"done", "aborted", "crashed"}

\* The operator runs the script again, over the same files and against the
\* same destination.
RunAgain ==
    /\ Ended
    /\ run < MaxRuns
    /\ run' = run + 1
    /\ ends' = Append(ends, pc)
    /\ dbPrev' = db
    /\ pc' = "init"
    /\ fx' = 0
    /\ i' = 0
    /\ data' = None
    /\ out' = << >>
    /\ log' = << >>
    /\ credSource' = "none"
    /\ UNCHANGED << script, env, keyFile, files, db, faults >>

Next ==
    \/ EncodeKey
    \/ InitFirebase
    \/ StartMigration
    \/ LoadFixture
    \/ SetDocument
    \/ BatchIteration
    \/ AddRecord
    \/ PrintSummary
    \/ Complete
    \/ RunAgain

Spec == Init /\ [][Next]_vars


(***************************************************************************)
(* Vocabulary of the properties.                                           *)
(***************************************************************************)
IndexOf(f) == CHOOSE k \in 1..NFixtures : FixtureFiles[k] = f
NUMEROS == IndexOf(NUMEROS_FILE)
VENTAS == IndexOf(VENTAS_FILE)
BatchedFixtures == {NUMEROS, VENTAS}
UnbatchedFixtures ==
    { IndexOf(GANADORES_FILE), IndexOf(RESULTADOS_ZULIA_FILE), IndexOf(COMPROBANTES_FILE) }
ListFixtures == BatchedFixtures \cup UnbatchedFixtures

\* The migrator is past initialisation in the current execution.
Migrating == script = "migrator" /\ credSource # "none"

\* The file of fixture k holds a non-empty JSON list; its records.
HoldsList(k) ==
    LET file == files[FixtureFiles[k]]
    IN file.kind = "json" /\ file.value.type = "list" /\ PyLen(file.value) > 0
Items(k) == files[FixtureFiles[k]].value.items

\* The loop of fixture k has been left; the section of fixture k is over
\* (normally, or by an exception that ended the execution inside it).
LoopOver(k) ==
    Migrating /\ (fx > k \/ (fx = k /\ pc \in {"summary", "crashed"}))
SectionOver(k) ==
    Migrating /\ (fx > k \/ (fx = k /\ pc = "crashed"))

\* The writes the current execution attempted for fixture k, in order.
WritesOf(k) ==
    LET Test(w) == w.fx = k IN SelectSeq(log, Test)
FailedWritesOf(k) ==
    LET Test(w) == w.fx = k /\ ~w.ok IN SelectSeq(log, Test)

\* The lines of the console that equal l, and those with the text of l.
CountLine(l) ==
    LET Test(x) == x = l IN Len(SelectSeq(out, Test))
CountMsg(l) ==
    LET Test(x) == x.msg = l.msg IN Len(SelectSeq(out, Test))

\* ceil(n / batch_size)
NumBatches(n) == (n + batch_size - 1) \div batch_size


(***************************************************************************)
(* C1  Fixture isolation.  Once the credentials are resolved, no failure   *)
(* in a fixture (missing file, malformed JSON, a record without 'numero',  *)
(* a rejected write or batch) keeps the migrator from the later fixtures:  *)
(* an execution that got past initialisation ends only after the section   *)
(* of the last fixture, with the completion message printed.               *)
(***************************************************************************)
C1_FixtureIsolation ==
    (Migrating /\ Ended) =>
        /\ pc = "done"
        /\ fx = NFixtures + 1
        /\ Len(out) >= Len(CompletionLines)
        /\ SubSeq(out, Len(out) - Len(CompletionLines) + 1, Len(out)) = CompletionLines

\* The same, for executions no uncaught exception ended: the exceptions of
\* the batch-building code (lines 91-95, 145-152) are the only way an
\* execution that got past initialisation ends early.
C1_IsolationOfCaughtFailures ==
    (Migrating /\ Ended /\ pc # "crashed") =>
        /\ pc = "done"
        /\ fx = NFixtures + 1
        /\ SubSeq(out, Len(out) - Len(CompletionLines) + 1, Len(out)) = CompletionLines

(***************************************************************************)
(* C2  Batch coverage.  For a batched fixture (numeros, ventas) holding a  *)
(* list of N >= 1 records, the migrator submits exactly ceil(N/500)        *)
(* batches, each of 1..500 records, and the g-th submitted batch is the    *)
(* g-th consecutive slice of the list.                                     *)
(***************************************************************************)
CoversInBatches(k) ==
    LET items == Items(k)
        commits == WritesOf(k)
    IN /\ Len(commits) = NumBatches(Len(items))
       /\ \A g \in 1..Len(commits) :
             /\ commits[g].op = "commit"
             /\ Len(commits[g].recs) \in 1..batch_size
             /\ commits[g].recs = Segment(items, (g - 1) * batch_size)

C2_BatchCoverage ==
    \A k \in BatchedFixtures : (HoldsList(k) /\ LoopOver(k)) => CoversInBatches(k)

\* The same, for sections no uncaught exception of the batch-building code
\* (lines 91-95, 145-152) ended.
C2_CoverageWhenNotCrashed ==
    \A k \in BatchedFixtures :
        (HoldsList(k) /\ LoopOver(k) /\ pc # "crashed") => CoversInBatches(k)


(***************************************************************************)
(* C3  Batch isolation.  When the commit of one group of numeros or ventas *)
(* is rejected, the group is reported as failed and leaves nothing in the  *)
(* destination, and every other group of the fixture is still submitted    *)
(* and, if accepted, fully written.                                        *)
(***************************************************************************)
\* The collection after the accepted ones of the commits, from docs.
RECURSIVE ApplyAccepted(_, _, _, _)
ApplyAccepted(k, docs, commits, g) ==
    IF g > Len(commits) THEN docs
    ELSE LET next == IF ~commits[g].ok THEN docs
                     ELSE IF k = NUMEROS THEN CommitNumeros(docs, commits[g].recs)
                     ELSE CommitVentas(docs, commits[g].recs)
         IN ApplyAccepted(k, next, commits, g + 1)

IsolatesBatches(k) ==
    LET f == FixtureFiles[k]
    IN /\ CountLine(CommitFailureLine(f)) = Len(FailedWritesOf(k))
       /\ Len(WritesOf(k)) = NumBatches(Len(Items(k)))
       /\ db[Collection(f)] = ApplyAccepted(k, dbPrev[Collection(f)], WritesOf(k), 1)

C3_BatchIsolation ==
    \A k \in BatchedFixtures :
        (HoldsList(k) /\ LoopOver(k) /\ Len(FailedWritesOf(k)) > 0) => IsolatesBatches(k)

\* The same, for sections no uncaught exception of the batch-building code
\* (lines 91-95, 145-152) ended.
C3_IsolationWhenNotCrashed ==
    \A k \in BatchedFixtures :
        (HoldsList(k) /\ LoopOver(k) /\ Len(FailedWritesOf(k)) > 0 /\ pc # "crashed")
            => IsolatesBatches(k)

(***************************************************************************)
(* C10  Summary line.  For every list fixture that loads as a non-empty    *)
(* list of N records, 'Migrados N ...' is printed exactly once, whatever   *)
(* commits or adds failed; so N is the number of records written only if   *)
(* no write of the fixture failed.                                         *)
(***************************************************************************)
\* The number of records the accepted writes of fixture k carried.
RECURSIVE SumAccepted(_, _)
SumAccepted(ws, g) ==
    IF g > Len(ws) THEN 0
    ELSE (IF ws[g].ok THEN Len(ws[g].recs) ELSE 0) + SumAccepted(ws, g + 1)
RecordsWritten(k) == SumAccepted(WritesOf(k), 1)

SummaryOnce(k) ==
    LET line == SummaryLine(FixtureFiles[k], Len(Items(k)))
    IN /\ CountLine(line) = 1
       /\ CountMsg(line) = 1
       /\ (RecordsWritten(k) = Len(Items(k)) => Len(FailedWritesOf(k)) = 0)

C10_SummaryLine ==
    \A k \in ListFixtures : (HoldsList(k) /\ SectionOver(k)) => SummaryOnce(k)

\* The same, for sections no uncaught exception of the batch-building code
\* (lines 91-95, 145-152) ended.
C10_SummaryWhenNotCrashed ==
    \A k \in ListFixtures :
        (HoldsList(k) /\ SectionOver(k) /\ ~(fx = k /\ pc = "crashed")) => SummaryOnce(k)


(***************************************************************************)
(* C4  Credential gate.  The credential comes from the environment         *)
(* variable whenever it is set and not empty, and from the key file only   *)
(* when it is unset or empty; an execution whose resolution or client      *)
(* initialisation failed is aborted and attempts no write: every write     *)
(* attempt follows a successful resolution.                                *)
(***************************************************************************)
C4_CredentialGate ==
    script = "migrator" =>
        /\ credSource = "env" => (env \notin {"unset", "empty"} /\ env = "valid")
        /\ credSource = "file" => (env \in {"unset", "empty"} /\ keyFile.valid)
        /\ credSource = "none" => (pc \in {"init", "aborted"} /\ log = << >> /\ db = dbPrev)
        /\ pc = "aborted" => credSource = "none"
        /\ Len(log) > 0 => credSource # "none"

\* The key file was used, because the variable was empty, and a write was made.
C4_Witness ==
    /\ script = "migrator"
    /\ env = "empty"
    /\ credSource = "file"
    /\ Len(log) > 0

(***************************************************************************)
(* C5  Empty or absent fixture -- as claimed.  If the file of a fixture is *)
(* absent or empty (no content, an empty array, an empty object), the      *)
(* fixture is skipped with a warning on the console, no write is issued    *)
(* for it, and the migrator goes on with the next fixture.                 *)
(***************************************************************************)
EmptyOrAbsent(k) ==
    files[FixtureFiles[k]] \in { Absent, NoContent, Json(List(<< >>)), Json(Dict(<< >>)) }

\* The console lines that name the file of fixture k.
LinesAbout(k) ==
    LET Test(x) == x.file = FixtureFiles[k] IN SelectSeq(out, Test)

\* Fixture k is only ever loaded: once read, the migrator is at a later one.
SkippedAtLoad(k) ==
    /\ fx = k => pc = "load"
    /\ fx > k => Len(WritesOf(k)) = 0

C5_SkippedWithWarning ==
    \A k \in 1..NFixtures :
        (Migrating /\ EmptyOrAbsent(k)) =>
            /\ SkippedAtLoad(k)
            /\ fx > k => Len(LinesAbout(k)) = 1

(***************************************************************************)
(* C5 as amended.  An absent file is skipped with the warning of           *)
(* load_json, a file without content with its JSON decoding error; a file  *)
(* holding an empty array or object is skipped without any console line.   *)
(* In every case no write is issued for the fixture and the migrator goes  *)
(* on with the next fixture.                                               *)
(***************************************************************************)
ExpectedLinesAbout(k) ==
    LET f == FixtureFiles[k]
    IN CASE files[f] = Absent ->
              << LineFile("Advertencia: Archivo '{}' no encontrado. Se omitira la migracion para este archivo.", f) >>
         [] files[f] = NoContent ->
              << LineFile("Error al decodificar JSON en '{}': {}", f) >>
         [] OTHER -> << >>

C5_SkippedSilentlyWhenEmpty ==
    \A k \in 1..NFixtures :
        (Migrating /\ EmptyOrAbsent(k)) =>
            /\ SkippedAtLoad(k)
            /\ fx > k => LinesAbout(k) = ExpectedLinesAbout(k)

\* An execution completed although one fixture file held an empty array,
\* with nothing on the console about that file.
C5_Witness ==
    /\ Migrating
    /\ pc = "done"
    /\ \E k \in 1..NFixtures :
          /\ files[FixtureFiles[k]] = Json(List(<< >>))
          /\ Len(LinesAbout(k)) = 0
          /\ \E w \in 1..Len(log) : log[w].fx > k


(***************************************************************************)
(* C6  Last write wins.  If two records of numeros have the same 'numero', *)
(* then after an execution in which every numeros batch committed the      *)
(* collection holds exactly one document for that key, and it is the       *)
(* later record, whether the two are in one batch or in two.               *)
(***************************************************************************)
\* The batching loop of numeros has just been left, or the execution has
\* completed, and no commit of a numeros batch was rejected in it.
AllNumerosCommitted ==
    /\ Migrating
    /\ HoldsList(NUMEROS)
    /\ (fx = NUMEROS /\ pc = "summary") \/ pc = "done"
    /\ Len(FailedWritesOf(NUMEROS)) = 0

\* The documents are keyed by exactly the keys of the list, and the document
\* of a record's key is that record or a record after it in the list.
LastWriteWins(docs, items) ==
    /\ DOMAIN docs = { items[j].numero : j \in 1..Len(items) }
    /\ \A j \in 1..Len(items) :
          LET d == docs[items[j].numero]
          IN /\ d.numero = items[j].numero
             /\ \/ d = items[j]
                \/ \E q \in (j + 1)..Len(items) : items[q] = d

C6_LastWriteWins ==
    AllNumerosCommitted => LastWriteWins(db["numeros"], Items(NUMEROS))

\* Every batch committed, and the last record of a list of more than one
\* batch repeats the key of the first.
C6_Witness ==
    /\ AllNumerosCommitted
    /\ Len(Items(NUMEROS)) > batch_size
    /\ Items(NUMEROS)[Len(Items(NUMEROS))].numero = Items(NUMEROS)[1].numero
    /\ db["numeros"][Items(NUMEROS)[1].numero] = Items(NUMEROS)[Len(Items(NUMEROS))]

(***************************************************************************)
(* C7  Per-record isolation.  For ganadores, resultados_zulia and          *)
(* comprobantes one add is attempted for every record of the list, in the  *)
(* order of the list; a failed add is reported with the record and does    *)
(* not stop the adds after it; the records written are exactly those       *)
(* whose add succeeded.                                                    *)
(***************************************************************************)
\* The records of the writes ws that were accepted (ok) or rejected (~ok).
RECURSIVE RecordsOf(_, _, _)
RecordsOf(ws, ok, g) ==
    IF g > Len(ws) THEN << >>
    ELSE (IF ws[g].ok = ok THEN ws[g].recs ELSE << >>) \o RecordsOf(ws, ok, g + 1)

\* The console lines 'Error al migrar ...' of fixture k.
AddFailureLines(k) ==
    LET Test(x) == x.msg = AddFailureLine(FixtureFiles[k], NoRec).msg
    IN SelectSeq(out, Test)

IsolatesRecords(k) ==
    LET f == FixtureFiles[k]
        items == Items(k)
        adds == WritesOf(k)
        done == IF fx = k /\ pc = "add" THEN i ELSE Len(items)
        failed == RecordsOf(adds, FALSE, 1)
    IN /\ Len(adds) = done
       /\ \A j \in 1..Len(adds) : adds[j].op = "add" /\ adds[j].recs = << items[j] >>
       /\ AddFailureLines(k) = [j \in 1..Len(failed) |-> AddFailureLine(f, failed[j])]
       /\ db[Collection(f)] = dbPrev[Collection(f)] \o RecordsOf(adds, TRUE, 1)

C7_RecordIsolation ==
    \A k \in UnbatchedFixtures :
        (Migrating /\ HoldsList(k) /\ (fx > k \/ (fx = k /\ pc \in {"add", "summary"})))
            => IsolatesRecords(k)

\* The add of the first of two ganadores failed and the add of the second
\* was accepted.
C7_Witness ==
    LET k == IndexOf(GANADORES_FILE)
    IN /\ Migrating
       /\ HoldsList(k)
       /\ fx > k
       /\ Len(WritesOf(k)) = 2
       /\ ~WritesOf(k)[1].ok
       /\ WritesOf(k)[2].ok
       /\ db["ganadores"] = dbPrev["ganadores"] \o << Items(k)[2] >>


(***************************************************************************)
(* C8  Re-run -- as claimed.  A second complete execution over the same    *)
(* fixtures inserts everything again: each collection with identities      *)
(* assigned by the destination (ganadores, ventas, resultados_zulia,       *)
(* comprobantes) then holds two records per record of its list, while the  *)
(* fixed-identity documents and the numeros documents are overwritten and  *)
(* are the same, in number and content, as after the first execution.      *)
(***************************************************************************)
\* The records the section of collection c writes: the list of its fixture
\* when the guard lets it through, nothing otherwise.
SourceOf(c) ==
    LET f == CHOOSE g \in FileNames : Collection(g) = c
        x == load_json(f).value
    IN IF Truthy(x) THEN x.items ELSE << >>

RECURSIVE Repeat(_, _)
Repeat(s, n) == IF n = 0 THEN << >> ELSE s \o Repeat(s, n - 1)

\* The current execution and all before it ran to the completion message.
AllCompleted ==
    /\ script = "migrator"
    /\ pc = "done"
    /\ \A r \in 1..Len(ends) : ends[r] = "done"

Reinserted ==
    /\ \A c \in AutoIdCollections :
          /\ db[c] = dbPrev[c] \o SourceOf(c)
          /\ db[c] = Repeat(SourceOf(c), run)
    /\ \A c \in SetCollections \cup {"numeros"} : db[c] = dbPrev[c]

C8_Rerun ==
    (AllCompleted /\ run >= 2) => Reinserted

(***************************************************************************)
(* C8 as amended.  What a second complete execution over the same fixtures *)
(* leaves, whatever writes the destination rejected.  It attempts every    *)
(* write again.  A collection with identities assigned by the destination  *)
(* gains one record for each element whose write was accepted in this      *)
(* execution, and none for a rejected one: it holds two records per        *)
(* element where the first execution had inserted every element and this   *)
(* one had no write of the collection rejected.  A fixed-identity document *)
(* or a numeros document is overwritten by each accepted write of it and   *)
(* left as it was by a rejected one.  A fixed-identity collection differs  *)
(* from its state after the first execution exactly when its document was *)
(* missing then and its set is accepted now.  With every commit accepted   *)
(* now, numeros holds what an execution with no rejected commit leaves in  *)
(* an empty collection, so it is the same, in number and content, as after *)
(* the first execution where that one had no commit rejected either.       *)
(***************************************************************************)
\* The fixture of collection c; the writes this execution attempted for c
\* and the accepted ones of them.
FixtureOf(c) == IndexOf(CHOOSE g \in FileNames : Collection(g) = c)
WritesTo(c) == WritesOf(FixtureOf(c))
AcceptedTo(c) ==
    LET Test(w) == w.ok IN SelectSeq(WritesTo(c), Test)
Rejected(c) == Len(AcceptedTo(c)) < Len(WritesTo(c))

\* The records a sequence of writes carried, in order.
RECURSIVE RecsOf(_, _)
RecsOf(ws, g) == IF g > Len(ws) THEN << >> ELSE ws[g].recs \o RecsOf(ws, g + 1)

\* The documents of a keyed collection after the accepted ones of the writes.
RECURSIVE Overwritten(_, _, _, _)
Overwritten(c, docs, ws, g) ==
    IF g > Len(ws) THEN docs
    ELSE LET next == IF ~ws[g].ok THEN docs
                     ELSE IF c = "numeros" THEN CommitNumeros(docs, ws[g].recs)
                     ELSE SetDoc(docs, DocumentId(FixtureFiles[FixtureOf(c)]), ws[g].recs[1])
         IN Overwritten(c, next, ws, g + 1)

\* The documents an execution with every write of keyed collection c
\* accepted leaves in the empty collection.
WrittenWhole(c) ==
    LET f == FixtureFiles[FixtureOf(c)]
        x == load_json(f).value
    IN IF ~Truthy(x) THEN EmptyDb[c]
       ELSE IF c = "numeros" THEN CommitNumeros(EmptyDb[c], x.items)
       ELSE SetDoc(EmptyDb[c], DocumentId(f), Payload(f, x))

RerunLeaves ==
    /\ \A c \in AutoIdCollections :
          /\ RecsOf(WritesTo(c), 1) = SourceOf(c)
          /\ db[c] = dbPrev[c] \o RecsOf(AcceptedTo(c), 1)
          /\ (dbPrev[c] = Repeat(SourceOf(c), run - 1) /\ ~Rejected(c))
                => db[c] = Repeat(SourceOf(c), run)
    /\ \A c \in SetCollections \cup {"numeros"} :
          /\ db[c] = Overwritten(c, dbPrev[c], WritesTo(c), 1)
          /\ ~Rejected(c) => db[c] = WrittenWhole(c)
          /\ (dbPrev[c] = WrittenWhole(c) /\ ~Rejected(c)) => db[c] = dbPrev[c]
    /\ \A c \in SetCollections :
          db[c] # dbPrev[c] <=> (dbPrev[c] = EmptyDb[c] /\ Len(AcceptedTo(c)) > 0)

C8_RerunLeaves ==
    (AllCompleted /\ run >= 2) => RerunLeaves

\* The second execution has completed.  The first one's commit of the two
\* ventas was rejected and the second one's accepted: ventas holds each of
\* them once, ganadores holds its record twice, and the fixed-identity
\* documents are as the first execution left them.
C8_Witness ==
    /\ AllCompleted
    /\ run = 2
    /\ Len(SourceOf("ventas")) = 2
    /\ dbPrev["ventas"] = << >>
    /\ ~Rejected("ventas")
    /\ db["ventas"] = SourceOf("ventas")
    /\ db["ganadores"] = Repeat(SourceOf("ganadores"), 2)
    /\ Len(db["ganadores"]) = 2
    /\ DOMAIN db["configuracion"] = {"general"}
    /\ db["configuracion"] = dbPrev["configuracion"]

(***************************************************************************)
(* C9  Encoder on a missing file.  When the key file does not exist the    *)
(* encoder prints exactly one error line and nothing else -- no marker     *)
(* line, no encoded text -- and ends normally.                             *)
(***************************************************************************)
C9_EncoderMissingFile ==
    (script = "encoder" /\ keyFile.kind = "absent") =>
        /\ pc \in {"init", "done"}
        /\ pc = "init" => out = << >>
        /\ pc = "done" =>
              /\ Len(out) = 1
              /\ out[1] = LineFile("Error: Archivo '{}' no encontrado en el directorio actual.",
                                   SERVICE_ACCOUNT_FILE)
        /\ \A j \in 1..Len(out) :
              /\ out[j].msg \notin {"--- COMIENZO DE CLAVE BASE64 ---", "--- FIN DE CLAVE BASE64 ---"}
              /\ out[j].text = << >>

\* The encoder has run without the key file.
C9_Witness ==
    /\ script = "encoder"
    /\ keyFile.kind = "absent"
    /\ pc = "done"
    /\ Len(out) = 1

=============================================================================
